---- MODULE Spec2Model ----
(***************************************************************************)
(* A model of the resume tools of this repository: app.py (HTML/PDF        *)
(* variant with session state), updated_app.py (Word variant with the      *)
(* analyze -> rewrite -> re-analyze loop) and super_app.py (single-call     *)
(* screener plus an unrelated churn demo).                                  *)
(*                                                                         *)
(* JSON values are tagged records of one shape, so that any two of them    *)
(* can be compared: t is the tag, s the characters of a string (or the key *)
(* of a mapping entry), n the value of a number, l the items of a list, the *)
(* entries of a mapping in insertion order, or the value of an entry.       *)
(***************************************************************************)
EXTENDS Integers, Sequences, FiniteSets, TLC

\* ------------------------------------------------------------------ bounds
\* Number of skill categories in the largest skills mapping drawn.
MaxSkills == 2
\* Number of experience entries in the longest experience list drawn.
MaxJobs == 2
\* Number of bullets of the longest bullets list drawn.
MaxBullets == 2

\* ------------------------------------------------------------ JSON values
Null == [t |-> "null", s |-> "", n |-> 0, l |-> <<>>]
Str(x) == [t |-> "str", s |-> x, n |-> 0, l |-> <<>>]
Num(k) == [t |-> "num", s |-> "", n |-> k, l |-> <<>>]
List(items) == [t |-> "list", s |-> "", n |-> 0, l |-> items]
KV(k, v) == [t |-> "kv", s |-> k, n |-> 0, l |-> <<v>>]
Dict(entries) == [t |-> "dict", s |-> "", n |-> 0, l |-> entries]

\* ------------------------------------------------- Python's operations
\* bool(v): None, "", 0, [] and {} are false, everything else is true.
Truthy(v) ==
  CASE v.t = "null" -> FALSE
    [] v.t = "str" -> v.s # ""
    [] v.t = "num" -> v.n # 0
    [] OTHER -> v.l # <<>>

\* key in d
HasKey(d, k) == \E i \in 1..Len(d.l) : d.l[i].s = k

\* d.get(k, default)
PyGet(d, k, default) ==
  IF HasKey(d, k)
    THEN d.l[CHOOSE i \in 1..Len(d.l) : d.l[i].s = k].l[1]
    ELSE default

\* ", ".join(parts)
RECURSIVE Join(_, _)
Join(parts, sep) ==
  IF parts = <<>> THEN ""
  ELSE IF Len(parts) = 1 THEN parts[1]
  ELSE parts[1] \o sep \o Join(Tail(parts), sep)

\* repr(v), and str(v), which differs from it on strings only.
RECURSIVE PyRepr(_)
PyRepr(v) ==
  CASE v.t = "null" -> "None"
    [] v.t = "str" -> "'" \o v.s \o "'"
    [] v.t = "num" -> ToString(v.n)
    [] v.t = "list" ->
         "[" \o Join([i \in 1..Len(v.l) |-> PyRepr(v.l[i])], ", ") \o "]"
    [] v.t = "dict" ->
         "{" \o Join([i \in 1..Len(v.l) |->
                       "'" \o v.l[i].s \o "': " \o PyRepr(v.l[i].l[1])], ", ") \o "}"

PyStr(v) == IF v.t = "str" THEN v.s ELSE PyRepr(v)

\* The characters of a string, as one-character strings. Exact for the strings of at
\* most one character, the only ones the inputs below ever iterate over.
Chars(x) == CASE Len(x) = 0 -> <<>> [] Len(x) = 1 -> <<Str(x)>>

\* for item in v: the items of a list, the keys of a mapping, the characters of a
\* string; a number or None is not iterable (TypeError).
PyIter(v) ==
  CASE v.t = "list" -> [raised |-> FALSE, items |-> v.l]
    [] v.t = "dict" -> [raised |-> FALSE, items |-> [i \in 1..Len(v.l) |-> Str(v.l[i].s)]]
    [] v.t = "str" -> [raised |-> FALSE, items |-> Chars(v.s)]
    [] OTHER -> [raised |-> TRUE, items |-> <<>>]

\* ------------------------------------------------------- the Word document
\* A document under construction: the paragraphs added so far, and whether an
\* exception ended the construction.
Ok(ps) == [raised |-> FALSE, err |-> "", paras |-> ps]
Raised(e) == [raised |-> TRUE, err |-> e, paras |-> <<>>]
Then(a, b) ==
  IF a.raised THEN a
  ELSE [raised |-> b.raised, err |-> b.err, paras |-> a.paras \o b.paras]

Run(text, bold, italic) == [text |-> text, bold |-> bold, italic |-> italic]
Para(style, runs) == [style |-> style, runs |-> runs]

\* The text a run gets from run.text = text: the library walks the text character by
\* character, so a truthy value that is not a string of characters raises TypeError.
TextOf(text) ==
  CASE ~Truthy(text) -> [raised |-> FALSE, text |-> ""]
    [] text.t = "str" -> [raised |-> FALSE, text |-> text.s]
    [] text.t \in {"list", "dict"} /\ \A i \in 1..Len(text.l) : PyIter(text).items[i].t = "str" ->
         [raised |-> FALSE,
          text |-> Join([i \in 1..Len(text.l) |-> PyIter(text).items[i].s], "")]
    [] OTHER -> [raised |-> TRUE, text |-> ""]

\* doc.add_paragraph(text, style): no run at all for a falsy text.
AddParagraph(text, style) ==
  IF ~Truthy(text) THEN Ok(<<Para(style, <<>>)>>)
  ELSE IF TextOf(text).raised THEN Raised("TypeError")
  ELSE Ok(<<Para(style, <<Run(TextOf(text).text, FALSE, FALSE)>>)>>)

\* doc.add_heading(text, level=1)
AddHeading(text) == AddParagraph(Str(text), "Heading 1")

\* 1. Header (Name & Contact): both lines are always added, with a placeholder text
\* for an absent key.
Header(data) ==
  LET name == TextOf(PyGet(data, "name", Str("Candidate Name")))
      contact == TextOf(PyGet(data, "contact_info", Str("Location | Email | Phone | LinkedIn")))
  IN  IF name.raised THEN Raised("TypeError")
      ELSE IF contact.raised
        THEN [raised |-> TRUE, err |-> "TypeError",
              paras |-> <<Para("Normal", <<Run(name.text, TRUE, FALSE)>>)>>]
      ELSE Ok(<<Para("Normal", <<Run(name.text, TRUE, FALSE)>>),
                Para("Normal", <<Run(contact.text, FALSE, FALSE)>>)>>)

\* As 2. below, but testing the key's presence instead of the value's truth.
SummarySectionIfPresent(data) ==
  IF HasKey(data, "summary")
    THEN Then(AddHeading("PROFESSIONAL SUMMARY"),
              AddParagraph(PyGet(data, "summary", Null), "Normal"))
    ELSE Ok(<<>>)

\* 2. Professional Summary
SummarySection(data) ==
  IF Truthy(PyGet(data, "summary", Null))
    THEN Then(AddHeading("PROFESSIONAL SUMMARY"),
              AddParagraph(PyGet(data, "summary", Null), "Normal"))
    ELSE Ok(<<>>)

\* One "Category: items" line of a skills mapping.
SkillLine(entry) ==
  LET items == TextOf(entry.l[1])
  IN  IF items.raised THEN Raised("TypeError")
      ELSE Ok(<<Para("Normal", <<Run(entry.s \o ": ", TRUE, FALSE),
                                  Run(items.text, FALSE, FALSE)>>)>>)

\* The lines of a mapping walked from its last entry to its first.
RECURSIVE SkillLinesReversed(_)
SkillLinesReversed(entries) ==
  IF entries = <<>> THEN Ok(<<>>)
  ELSE Then(SkillLinesReversed(Tail(entries)), SkillLine(Head(entries)))

RECURSIVE SkillLines(_)
SkillLines(entries) ==
  IF entries = <<>> THEN Ok(<<>>)
  ELSE Then(SkillLine(Head(entries)), SkillLines(Tail(entries)))

\* 3. Technical Skills
SkillsSection(data) ==
  LET skills == PyGet(data, "skills", Null)
  IN  IF Truthy(skills)
        THEN Then(AddHeading("TECHNICAL SKILLS"),
                  IF skills.t = "dict"
                    THEN SkillLines(skills.l)
                    ELSE AddParagraph(Str(PyStr(skills)), "Normal"))
        ELSE Ok(<<>>)

RECURSIVE BulletParas(_)
BulletParas(bullets) ==
  IF bullets = <<>> THEN Ok(<<>>)
  ELSE Then(AddParagraph(Head(bullets), "List Bullet"), BulletParas(Tail(bullets)))

\* One experience entry: the role line, the dates, the bullets. job.get on anything
\* but a mapping is an AttributeError.
JobParas(job) ==
  IF job.t # "dict" THEN Raised("AttributeError")
  ELSE
    LET role == PyStr(PyGet(job, "role", Str("Role"))) \o " | "
                  \o PyStr(PyGet(job, "company", Str("Company")))
        dates == PyGet(job, "dates", Null)
        line == IF Truthy(dates)
                  THEN <<Run(role, TRUE, FALSE), Run("  (" \o PyStr(dates) \o ")", FALSE, TRUE)>>
                  ELSE <<Run(role, TRUE, FALSE)>>
        bullets == PyIter(PyGet(job, "bullets", List(<<>>)))
    IN  Then(Ok(<<Para("Normal", line)>>),
             IF bullets.raised THEN Raised("TypeError") ELSE BulletParas(bullets.items))

RECURSIVE JobsParas(_)
JobsParas(jobs) ==
  IF jobs = <<>> THEN Ok(<<>>)
  ELSE Then(JobParas(Head(jobs)), JobsParas(Tail(jobs)))

\* As 4. below, but reading data['experience'] without asking whether it is there.
ExperienceSectionUnguarded(data) ==
  IF ~HasKey(data, "experience") THEN Raised("KeyError")
  ELSE LET experience == PyGet(data, "experience", Null)
       IN  Then(AddHeading("PROFESSIONAL EXPERIENCE"),
                IF PyIter(experience).raised THEN Raised("TypeError")
                ELSE JobsParas(PyIter(experience).items))

\* 4. Professional Experience
ExperienceSection(data) ==
  LET experience == PyGet(data, "experience", Null)
  IN  IF Truthy(experience)
        THEN Then(AddHeading("PROFESSIONAL EXPERIENCE"),
                  IF PyIter(experience).raised THEN Raised("TypeError")
                  ELSE JobsParas(PyIter(experience).items))
        ELSE Ok(<<>>)

EduPara(edu) ==
  IF edu.t # "dict" THEN Raised("AttributeError")
  ELSE AddParagraph(Str(PyStr(PyGet(edu, "degree", Str(""))) \o " - "
                          \o PyStr(PyGet(edu, "school", Str("")))), "Normal")

RECURSIVE EduParas(_)
EduParas(edus) ==
  IF edus = <<>> THEN Ok(<<>>)
  ELSE Then(EduPara(Head(edus)), EduParas(Tail(edus)))

\* 5. Education
EducationSection(data) ==
  LET education == PyGet(data, "education", Null)
  IN  IF Truthy(education)
        THEN Then(AddHeading("EDUCATION"),
                  IF PyIter(education).raised THEN Raised("TypeError")
                  ELSE EduParas(PyIter(education).items))
        ELSE Ok(<<>>)

\* create_docx(data): the paragraphs of the saved document, or the exception.
create_docx(data) ==
  Then(Header(data),
  Then(SummarySection(data),
  Then(SkillsSection(data),
  Then(ExperienceSection(data), EducationSection(data)))))

\* ------------------------------------------------- the inputs drawn
NoDoc == [raised |-> FALSE, err |-> "none", paras |-> <<>>]

Category(i) == "Category" \o ToString(i)
SkillsMap(k) == Dict([i \in 1..k |-> KV(Category(i), Str("items" \o ToString(i)))])
\* The same entries inserted in the opposite order.
SkillsMapReversed(k) ==
  Dict([i \in 1..k |-> KV(Category(k + 1 - i), Str("items" \o ToString(k + 1 - i)))])

Job(i, b) ==
  Dict(<<KV("role", Str("Role" \o ToString(i))), KV("company", Str("Co" \o ToString(i))),
         KV("dates", Str("20" \o ToString(i))),
         KV("bullets", List([j \in 1..b |-> Str("did " \o ToString(i) \o "." \o ToString(j))]))>>)
JobWith(bullets) == Dict(<<KV("role", Str("Role")), KV("bullets", bullets)>>)
Edu(i) == Dict(<<KV("degree", Str("BSc" \o ToString(i))), KV("school", Str("Uni" \o ToString(i)))>>)

Absent == <<>>
Field(k, values) == {<<KV(k, v)>> : v \in values}

NameOptions == {Absent} \cup Field("name", {Str("Ann Lee")})
ContactOptions == {Absent} \cup Field("contact_info", {Str("Leeds | ann@x.org")})
SummaryOptions == {Absent} \cup Field("summary", {Str("Analyst, 5 years"), Str(""), Null})
SkillsOptions ==
  {Absent} \cup Field("skills",
      {SkillsMap(k) : k \in 0..MaxSkills} \cup {SkillsMapReversed(MaxSkills)}
      \cup {Str("Python, SQL"), Str(""), Null, List(<<Str("Python"), Str("SQL")>>),
            Dict(<<KV("Languages", Num(3))>>), Dict(<<KV("Languages", Null)>>)})
ExperienceOptions ==
  {Absent} \cup Field("experience",
      {List([i \in 1..k |-> Job(i, b)]) : k \in 0..MaxJobs, b \in 0..MaxBullets}
      \cup {List(<<Dict(<<KV("role", Str("Lead"))>>)>>),
            List(<<Str("x")>>), Str("x"), Num(5), Job(1, 1),
            List(<<JobWith(Num(3))>>), List(<<JobWith(Null)>>), List(<<JobWith(Str("b"))>>)})
EducationOptions ==
  {Absent} \cup Field("education",
      {List(<<>>), List(<<Edu(1)>>), List(<<Dict(<<KV("degree", Str("MSc"))>>), Edu(2)>>),
       Edu(1), Str("x"), List(<<Str("x")>>)})

\* Every JSON object the rewrite can come back as: any subset of the keys, each with a
\* value of the documented shape or of another one.
Docs ==
  {Dict(n \o c \o s \o k \o e \o d) :
     n \in NameOptions, c \in ContactOptions, s \in SummaryOptions,
     k \in SkillsOptions, e \in ExperienceOptions, d \in EducationOptions}

\* ------------------------------------------------------------------ texts
\* A text is a sequence of chunks: w names the characters, n is how many of them are
\* there and of how many the whole chunk had (n < of for a chunk that was cut).
Chunk(w, n) == [w |-> w, n |-> n, of |-> n]
NoText == <<>>

RECURSIVE TextLen(_)
TextLen(text) == IF text = <<>> THEN 0 ELSE Head(text).n + TextLen(Tail(text))

\* text[:limit]
RECURSIVE Take(_, _)
Take(text, limit) ==
  IF text = <<>> \/ limit <= 0 THEN <<>>
  ELSE IF Head(text).n <= limit
    THEN <<Head(text)>> \o Take(Tail(text), limit - Head(text).n)
  ELSE <<[Head(text) EXCEPT !.n = limit]>>

RECURSIVE JoinTexts(_, _)
JoinTexts(parts, sep) ==
  IF parts = <<>> THEN <<>>
  ELSE IF Len(parts) = 1 THEN parts[1]
  ELSE parts[1] \o sep \o JoinTexts(Tail(parts), sep)

\* json.dumps(v), token by token: a string between quotes, ", " between items and ": "
\* after a key.
RECURSIVE Dumps(_)
Dumps(v) ==
  CASE v.t = "null" -> <<Chunk("null", 4)>>
    [] v.t = "str" -> <<Chunk(v.s, Len(v.s) + 2)>>
    [] v.t = "num" -> <<Chunk(ToString(v.n), Len(ToString(v.n)))>>
    [] v.t = "list" ->
         <<Chunk("[", 1)>>
           \o JoinTexts([i \in 1..Len(v.l) |-> Dumps(v.l[i])], <<Chunk(", ", 2)>>)
           \o <<Chunk("]", 1)>>
    [] v.t = "dict" ->
         <<Chunk("{", 1)>>
           \o JoinTexts([i \in 1..Len(v.l) |->
                           <<Chunk(v.l[i].s, Len(v.l[i].s) + 2), Chunk(": ", 2)>>
                             \o Dumps(v.l[i].l[1])],
                        <<Chunk(", ", 2)>>)
           \o <<Chunk("}", 1)>>

\* The text of a PDF: text += page.extract_text() + "\n" for every page.
RECURSIVE ExtractText(_)
ExtractText(pages) ==
  IF pages = <<>> THEN NoText
  ELSE Head(pages) \o <<Chunk("\n", 1)>> \o ExtractText(Tail(pages))

\* ----------------------------------------------------- the prefix bounds
\* updated_app: jd_text[:4000] and resume_text[:4000].
FitLimit == 4000
\* app: resume_text[:3000] and jd_text[:3000] of analyze_gap, and the resume_text[:3000]
\* of generate_optimized_content.
GapLimit == 3000
\* app: jd_text[:2000] of generate_optimized_content.
ContextLimit == 2000
\* app: resume_text[:2000] and jd_text[:2000] of generate_cover_letter.
LetterLimit == 2000

\* ------------------------------------------------------ bounds of the runs
\* Script runs (user interactions) of one session.
MaxRuns == 2
\* Length of the short texts.
ShortLen == 10
\* Characters by which the long texts exceed the largest prefix bound.
MaxExtra == 1

\* --------------------------------------------------------- oracle requests
\* client.chat.completions.create(...): what is sent. The prompt is the template with
\* the texts (and the gap report's keywords) put in.
Request(template, model, temperature, seed, format, jd, resume, gap) ==
  [template |-> template, model |-> model, temperature |-> temperature, seed |-> seed,
   format |-> format, jd |-> jd, resume |-> resume, gap |-> gap]

\* An analyze_fit that submits the whole of both texts.
analyze_fit_whole(resume_text, jd_text) ==
  Request("strict ATS", "gpt-4o-mini", "0.0", "42", "json_object", jd_text, resume_text, Null)

analyze_fit(resume_text, jd_text) ==
  Request("strict ATS", "gpt-4o-mini", "0.0", "42", "json_object",
          Take(jd_text, FitLimit), Take(resume_text, FitLimit), Null)

rewrite_resume_to_json(resume_text, jd_text, gap_data) ==
  Request("Google XYZ rewrite", "gpt-4o", "0.0", "42", "json_object",
          Take(jd_text, FitLimit), Take(resume_text, FitLimit),
          PyGet(gap_data, "missing_keywords", Null))

analyze_gap(resume_text, jd_text) ==
  Request("Salesforce gap analysis", "gpt-4o-mini", "default", "none", "json_object",
          Take(jd_text, GapLimit), Take(resume_text, GapLimit), Null)

generate_optimized_content(resume_text, jd_text, gap_analysis) ==
  Request("Salesforce resume in HTML", "gpt-4o", "default", "none", "text",
          Take(jd_text, ContextLimit), Take(resume_text, GapLimit),
          PyGet(gap_analysis, "missing_skills", Null))

generate_cover_letter(resume_text, jd_text) ==
  Request("cover letter", "gpt-4o", "default", "none", "text",
          Take(jd_text, LetterLimit), Take(resume_text, LetterLimit), Null)

\* super_app's 'Analyze Candidate' prompt: the whole extracted text, no job text.
analyze_candidate(text) ==
  Request("Technical Recruiter fields", "gpt-4o-mini", "default", "none", "json_object",
          NoText, text, Null)

\* What the oracle sends back: content that parses as a JSON object, content that
\* does not, or free text.
JsonContent(v) == [valid |-> TRUE, json |-> v, text |-> NoText]
InvalidContent == [valid |-> FALSE, json |-> Null, text |-> NoText]
TextContent(text) == [valid |-> FALSE, json |-> Null, text |-> text]

Report(percentage, keywords) ==
  Dict(<<KV("match_percentage", Num(percentage)),
         KV("missing_keywords", List([i \in 1..Len(keywords) |-> Str(keywords[i])])),
         KV("summary_critique", Str("Lacks platform skills."))>>)
\* The gap reports drawn: two full ones and an object without the other keys.
FitReports == {Report(40, <<"APEX", "LWC">>), Report(70, <<"LWC">>),
   Dict(<<KV("match_percentage", Num(55))>>)}

GapReport(score, skills) ==
  Dict(<<KV("score", Num(score)),
         KV("missing_skills", List([i \in 1..Len(skills) |-> Str(skills[i])])),
         KV("missing_certs", List(<<>>)), KV("advice", Str("Get certified."))>>)
GapReports == {GapReport(40, <<"APEX", "LWC">>), Dict(<<KV("score", Num(55))>>)}

CandidateReports ==
  {Dict(<<KV("candidate_name", Str("Ann Lee")), KV("years_experience", Num(5)),
          KV("match_score", Num(60)), KV("key_skills", List(<<Str("SQL")>>)),
          KV("missing_skills", List(<<Str("APEX")>>)), KV("summary", Str("Solid."))>>),
   Dict(<<KV("candidate_name", Str("Ann Lee"))>>)}

RawHtml == <<Chunk("<h1>Ann Lee</h1>", 16)>>
Letter == <<Chunk("Dear Hiring Manager", 19)>>

FullDoc ==
  Dict(<<KV("name", Str("Ann Lee")), KV("contact_info", Str("Leeds | ann@x.org")),
         KV("summary", Str("Analyst, 5 years")), KV("skills", SkillsMap(MaxSkills)),
         KV("experience", List(<<Job(1, MaxBullets)>>)), KV("education", List(<<Edu(1)>>))>>)
NoExperienceDoc ==
  Dict(<<KV("name", Str("Ann Lee")), KV("summary", Str("Analyst, 5 years")),
         KV("skills", Str("APEX, LWC"))>>)
MalformedDoc ==
  Dict(<<KV("name", Str("Ann Lee")), KV("summary", Str("Analyst, 5 years")),
         KV("experience", List(<<Str("x")>>))>>)
\* The rewrites drawn in the pipeline.
RewriteDocs == {FullDoc, NoExperienceDoc, MalformedDoc}

\* ------------------------------------------------------------ the state
VARIABLES
  variant,          \* which script runs: "app", "updated_app" or "super_app"
  secretKey,        \* st.secrets.get("OPENAI_API_KEY"), "" when not there
  envKey,           \* os.getenv("OPENAI_API_KEY"), "" when not there
  client,           \* the api_key of the OpenAI client, "" before it is constructed
  pc,               \* "idle" between script runs, else the call the script waits in
  runs,             \* script runs started
  button,           \* the action button's value in this run
  jd_text_input,    \* the pasted job description
  fetched_jd,       \* fetch_jd_from_url's result
  final_jd,         \* the job text of the request
  uploaded_file,    \* the uploaded PDF
  original_text,    \* the extracted resume text
  original_analysis,
  resume_json,
  docx_data,
  new_analysis,
  session_state,    \* app: st.session_state's analysis, optimized_html and cover_letter
  stored_in,        \* history: the script run that stored each of them, 0 for none
  app_mode,         \* super_app: the module chosen in the sidebar
  calls,            \* the oracle calls of this run, in order
  stages,           \* the pipeline stages of this run, as start and end events
  shown,            \* what this run has put on the page
  error             \* the exception that ended this run, "" for none

vars ==
  <<variant, secretKey, envKey, client, pc, runs, button, jd_text_input, fetched_jd,
    final_jd, uploaded_file, original_text, original_analysis, resume_json, docx_data,
    new_analysis, session_state, stored_in, app_mode, calls, stages, shown, error>>

config == <<variant, secretKey, envKey>>

\* Optional values: None, or a text.
None == [some |-> FALSE, text |-> NoText]
Some(text) == [some |-> TRUE, text |-> text]
IsSet(v) == v.some /\ v.text # NoText

NoFile == [present |-> FALSE, pages |-> <<>>]
Pdf(pages) == [present |-> TRUE, pages |-> pages]

Start(stage) == [stage |-> stage, ev |-> "start"]
End(stage) == [stage |-> stage, ev |-> "end"]
Did(stage) == <<Start(stage), End(stage)>>

\* The inputs drawn.
JobTexts == {<<Chunk("jd-short", ShortLen)>>, <<Chunk("jd", FitLimit + MaxExtra)>>}
Uploads ==
  {NoFile, Pdf(<<<<Chunk("cv-short", ShortLen)>>>>),
   Pdf(<<<<Chunk("cv", GapLimit)>>, <<Chunk("cv-more", FitLimit - GapLimit + MaxExtra)>>>>)}
\* The link tab: no URL given, or requests.get through the reader proxy raises, or it
\* answers with some text.
Links ==
  {[url |-> FALSE, raised |-> FALSE, text |-> NoText],
   [url |-> TRUE, raised |-> TRUE, text |-> NoText],
   [url |-> TRUE, raised |-> FALSE, text |-> NoText],
   [url |-> TRUE, raised |-> FALSE, text |-> <<Chunk("jd-fetched", ShortLen)>>]}

fetch_jd_from_url(link) == IF link.raised THEN None ELSE Some(link.text)

\* ------------------------------------------------------- the script runs
\* The state a script run works on, as one record; a piece of script maps it to the
\* state it leaves.
Cur ==
  [client |-> client, pc |-> pc, runs |-> runs, button |-> button,
   jd_text_input |-> jd_text_input, fetched_jd |-> fetched_jd, final_jd |-> final_jd,
   uploaded_file |-> uploaded_file, original_text |-> original_text,
   original_analysis |-> original_analysis, resume_json |-> resume_json,
   docx_data |-> docx_data, new_analysis |-> new_analysis,
   session_state |-> session_state, stored_in |-> stored_in, app_mode |-> app_mode,
   calls |-> calls,
   stages |-> stages, shown |-> shown, error |-> error]

Becomes(S) ==
  /\ client' = S.client /\ pc' = S.pc /\ runs' = S.runs /\ button' = S.button
  /\ jd_text_input' = S.jd_text_input /\ fetched_jd' = S.fetched_jd
  /\ final_jd' = S.final_jd /\ uploaded_file' = S.uploaded_file
  /\ original_text' = S.original_text /\ original_analysis' = S.original_analysis
  /\ resume_json' = S.resume_json /\ docx_data' = S.docx_data
  /\ new_analysis' = S.new_analysis /\ session_state' = S.session_state
  /\ stored_in' = S.stored_in
  /\ app_mode' = S.app_mode /\ calls' = S.calls /\ stages' = S.stages
  /\ shown' = S.shown /\ error' = S.error
  /\ UNCHANGED config

\* A script run starts from the top: nothing of the last run's names is left, the
\* session state stays.
Top(S) ==
  [S EXCEPT !.client = "", !.runs = @ + 1, !.button = FALSE, !.jd_text_input = NoText,
            !.fetched_jd = None, !.final_jd = None, !.uploaded_file = NoFile,
            !.original_text = NoText, !.original_analysis = Null, !.resume_json = Null,
            !.docx_data = NoDoc, !.new_analysis = Null, !.calls = <<>>, !.stages = <<>>,
            !.shown = {}, !.error = ""]

Show(S, things) == [S EXCEPT !.shown = @ \cup things]
Stage(S, events) == [S EXCEPT !.stages = @ \o events]
\* An exception nobody catches: the run ends there.
Abort(S, e) == [S EXCEPT !.pc = "idle", !.error = e]
\* The script calls the oracle and waits for it.
Call(S, at, req, resume_text, jd_text) ==
  [S EXCEPT !.pc = at,
            !.calls = Append(@, [req |-> req, api_key |-> S.client, at |-> at,
                                 resume_text |-> resume_text, jd_text |-> jd_text])]

\* -------------------------------------------------------------- updated_app
\* A rescoring that scores the original text again.
RescoreOriginal(S) ==
  Call(S, "rescore", analyze_fit(S.original_text, S.final_jd.text),
       S.original_text, S.final_jd.text)

\* The rescoring call: json.dumps(resume_json) in place of the resume text.
Rescore(S) ==
  Call(S, "rescore", analyze_fit(Dumps(S.resume_json), S.final_jd.text),
       Dumps(S.resume_json), S.final_jd.text)

\* An API setup that falls back on a placeholder key.
UpdatedApiKeyPlaceholder ==
  IF secretKey # "" THEN secretKey ELSE IF envKey # "" THEN envKey ELSE "sk-placeholder"

\* 3. API Setup: the secrets store, then the environment.
UpdatedApiKey == IF secretKey # "" THEN secretKey ELSE envKey

\* if not final_jd or not uploaded_file
UpdatedMissing(final, file) == ~IsSet(final) \/ ~file.present

\* The script from the top to the first oracle call, or to its end.
UpdatedScript(S, b, jd, link, file) ==
  LET api_key == UpdatedApiKey
      fetched == IF link.url THEN fetch_jd_from_url(link) ELSE None
      final == IF jd # NoText THEN Some(jd) ELSE fetched
      S1 == Show([Top(S) EXCEPT !.client = api_key, !.button = b, !.jd_text_input = jd,
                                !.fetched_jd = fetched, !.uploaded_file = file],
                 {"text_area", "text_input", "file_uploader", "button"}
                   \cup (IF ~link.url THEN {} ELSE IF IsSet(fetched)
                           THEN {"success: JD Loaded"} ELSE {"error: Could not fetch link"}))
      S2 == [S1 EXCEPT !.final_jd = final]
      text == ExtractText(file.pages)
  IN  IF api_key = "" THEN Show(Top(S), {"error: API Key Missing"})
      ELSE IF ~b THEN S1
      ELSE IF UpdatedMissing(final, file) THEN Show(S2, {"warning"})
      ELSE Call(Stage([S2 EXCEPT !.original_text = text],
                      Did("Extract") \o <<Start("Analyze")>>),
                "analyze_fit", analyze_fit(text, final.text), text, final.text)

\* As AfterAnalyze below, but asking again when the answer does not parse.
AfterAnalyzeRetry(S, reply) ==
  IF ~reply.valid
    THEN Call(S, "analyze_fit", analyze_fit(S.original_text, S.final_jd.text),
              S.original_text, S.final_jd.text)
  ELSE LET S1 == Stage([S EXCEPT !.original_analysis = reply.json],
                       <<End("Analyze"), Start("Rewrite")>>)
       IN  IF ~HasKey(reply.json, "missing_keywords") THEN Abort(S1, "KeyError")
           ELSE Call(S1, "rewrite_resume_to_json",
                     rewrite_resume_to_json(S.original_text, S.final_jd.text, reply.json),
                     S.original_text, S.final_jd.text)

\* analyze_fit has its answer: step B ends, step C starts.
AfterAnalyze(S, reply) ==
  IF ~reply.valid THEN Abort(S, "JSONDecodeError")
  ELSE LET S1 == Stage([S EXCEPT !.original_analysis = reply.json],
                       <<End("Analyze"), Start("Rewrite")>>)
       IN  IF ~HasKey(reply.json, "missing_keywords") THEN Abort(S1, "KeyError")
           ELSE Call(S1, "rewrite_resume_to_json",
                     rewrite_resume_to_json(S.original_text, S.final_jd.text, reply.json),
                     S.original_text, S.final_jd.text)

\* As AfterRewrite below, but rescoring before the document is generated.
AfterRewriteRescoreFirst(S, reply) ==
  IF ~reply.valid THEN Abort(S, "JSONDecodeError")
  ELSE Rescore(Stage([S EXCEPT !.resume_json = reply.json],
                     <<End("Rewrite"), Start("Rescore")>>))

\* rewrite_resume_to_json has its answer: the document is generated, then step D starts.
AfterRewrite(S, reply) ==
  IF ~reply.valid THEN Abort(S, "JSONDecodeError")
  ELSE LET doc == create_docx(reply.json)
           S1 == Stage([S EXCEPT !.resume_json = reply.json],
                       <<End("Rewrite"), Start("Render")>>)
       IN  IF doc.raised THEN Abort(S1, doc.err)
           ELSE Rescore(Stage([S1 EXCEPT !.docx_data = doc],
                              <<End("Render"), Start("Rescore")>>))

\* The second analyze_fit has its answer: the report and the download are shown.
AfterRescore(S, reply) ==
  IF ~reply.valid THEN Abort(S, "JSONDecodeError")
  ELSE LET S1 == Stage([S EXCEPT !.new_analysis = reply.json],
                       <<End("Rescore"), Start("Present")>>)
       IN  IF ~HasKey(S.original_analysis, "match_percentage") THEN Abort(S1, "KeyError")
           ELSE IF ~HasKey(reply.json, "match_percentage")
             THEN Abort(Show(S1, {"metric: Original Score"}), "KeyError")
           ELSE [Stage(Show(S1, {"metric: Original Score", "metric: Optimized Score",
                                 "metric: Improvement", "Missing Keywords",
                                 "download: .docx"}),
                       <<End("Present")>>) EXCEPT !.pc = "idle"]

\* ---------------------------------------------------------------------- app
\* pdf_from_html: None when the conversion reports an error.
pdf_from_html(html_content, pisa) ==
  IF pisa = "err" THEN None ELSE Some(<<Chunk("%PDF", TextLen(html_content.text))>>)

\* RESULTS DISPLAY: the three tabs, when an analysis is stored. pisa is how the
\* conversion ends: "ok", "err" (pisa_status.err) or "raise" (pisa.CreatePDF raises;
\* no try surrounds it). The preview takes an absent page as an empty frame; the
\* cover letter's download button raises on data=None.
Display(S, pisa) ==
  LET data == S.session_state.analysis
      html == S.session_state.optimized_html
      letter == S.session_state.cover_letter
      S1 == Stage(Show(S, {"tabs"}), <<Start("Present")>>)
      S2 == Stage(Show(S1, {"metric: Match Score", "Missing Skills",
                            "Missing Certifications", "Strategic Advice"}),
                  <<Start("Render")>>)
      S3 == Show(S2, IF IsSet(pdf_from_html(html, pisa))
                       THEN {"download: PDF"} ELSE {"error: Error generating PDF."})
      S4 == Show(Stage(S3, <<End("Render")>>), {"html preview"})
  IN  IF ~Truthy(data) THEN [S EXCEPT !.pc = "idle"]
      ELSE IF ~HasKey(data, "score") THEN Abort(S1, "KeyError")
      ELSE IF ~HasKey(data, "missing_skills")
        THEN Abort(Show(S1, {"metric: Match Score"}), "KeyError")
      ELSE IF ~HasKey(data, "advice")
        THEN Abort(Show(S1, {"metric: Match Score", "Missing Skills",
                             "Missing Certifications"}), "KeyError")
      ELSE IF pisa = "raise" THEN Abort(S2, "PisaError")
      ELSE IF ~letter.some THEN Abort(Show(S4, {"text_area: cover letter"}), "RuntimeError")
      ELSE [Stage(Show(S4, {"text_area: cover letter", "download: Cover Letter"}),
                  <<End("Present")>>) EXCEPT !.pc = "idle"]

\* An input guard that forgets the file.
AppMissingJobOnly(jd, file) == jd = NoText

\* if not jd_input or not uploaded_file
AppMissing(jd, file) == jd = NoText \/ ~file.present

\* The script from the top to the first oracle call, or to its end.
AppScript(S, b, jd, file, pisa) ==
  LET api_key == secretKey
      S1 == Show([Top(S) EXCEPT !.client = api_key, !.button = b, !.jd_text_input = jd,
                                !.uploaded_file = file],
                 {"text_area", "file_uploader", "button"})
      text == ExtractText(file.pages)
  IN  IF api_key = "" THEN Show(Top(S), {"error: API Key Missing"})
      ELSE IF ~b THEN Display(S1, pisa)
      ELSE IF AppMissing(jd, file) THEN Display(Show(S1, {"warning"}), pisa)
      ELSE Call(Stage([S1 EXCEPT !.original_text = text, !.final_jd = Some(jd)],
                      Did("Extract") \o <<Start("Analyze")>>),
                "analyze_gap", analyze_gap(text, jd), text, jd)

\* analyze_gap has its answer: it is stored, and the resume is drafted.
AfterGap(S, reply) ==
  IF ~reply.valid THEN Abort(S, "JSONDecodeError")
  ELSE LET S1 == Stage([S EXCEPT !.session_state.analysis = reply.json,
                                 !.stored_in.analysis = S.runs],
                       <<End("Analyze"), Start("Rewrite")>>)
       IN  IF ~HasKey(reply.json, "missing_skills") THEN Abort(S1, "KeyError")
           ELSE Call(S1, "generate_optimized_content",
                     generate_optimized_content(S.original_text, S.final_jd.text, reply.json),
                     S.original_text, S.final_jd.text)

\* The stylesheet and the generated body, combined.
Page(raw_html) ==
  <<Chunk("<html><head>RESUME_CSS</head><body>", 35)>> \o raw_html
    \o <<Chunk("</body></html>", 14)>>

\* generate_optimized_content has its answer: it is stored, and the letter is drafted.
AfterContent(S, reply) ==
  Call(Stage([S EXCEPT !.session_state.optimized_html = Some(Page(reply.text)),
                       !.stored_in.optimized_html = S.runs],
             <<End("Rewrite"), Start("CoverLetter")>>),
       "generate_cover_letter", generate_cover_letter(S.original_text, S.final_jd.text),
       S.original_text, S.final_jd.text)

\* generate_cover_letter has its answer: it is stored, and the results are displayed.
AfterLetter(S, reply, pisa) ==
  Display(Show(Stage([S EXCEPT !.session_state.cover_letter = Some(reply.text),
                               !.stored_in.cover_letter = S.runs],
                     <<End("CoverLetter")>>),
               {"success: Processing Complete"}),
          pisa)

\* ---------------------------------------------------------------- super_app
\* The script from the top to the oracle call, or to its end.
SuperScript(S, mode, file, b) ==
  LET S0 == Show([Top(S) EXCEPT !.app_mode = mode], {"sidebar radio"})
      S1 == Show([S0 EXCEPT !.uploaded_file = file], {"file_uploader"})
      text == ExtractText(file.pages)
      S2 == Show(Stage([S1 EXCEPT !.original_text = text], Did("Extract")),
                 {"success: PDF Loaded", "button"})
  IN  IF mode = "churn"
        THEN Show([S0 EXCEPT !.button = b],
                  {"slider", "selectbox", "number_input", "button"}
                    \cup (IF b THEN {"prediction"} ELSE {}))
      ELSE IF envKey = "" THEN Show(S0, {"error: API Key Missing"})
      ELSE IF ~file.present THEN S1
      ELSE IF ~b THEN S2
      ELSE Call(Stage([S2 EXCEPT !.button = TRUE, !.client = envKey], <<Start("Analyze")>>),
                "analyze_candidate", analyze_candidate(text), text, NoText)

\* The call has its answer: the fields are laid out.
AfterCandidate(S, reply) ==
  IF ~reply.valid THEN Abort(S, "JSONDecodeError")
  ELSE LET S1 == Stage([S EXCEPT !.original_analysis = reply.json],
                       <<End("Analyze"), Start("Present")>>)
       IN  IF \E k \in {"candidate_name", "years_experience", "match_score", "key_skills",
                        "missing_skills", "summary"} : ~HasKey(reply.json, k)
             THEN Abort(S1, "KeyError")
           ELSE [Stage(Show(S1, {"metric: Candidate Name", "metric: Years Exp",
                                 "metric: Match Score", "Key Skills", "Missing / Gaps",
                                 "Verdict"}),
                       <<End("Present")>>) EXCEPT !.pc = "idle"]

\* ------------------------------------------------------------ the actions
Keys(k) == {"", k}
Init ==
  /\ variant \in {"app", "updated_app", "super_app"}
  /\ secretKey \in Keys("sk-secret")
  /\ envKey \in Keys("sk-env")
  /\ client = "" /\ pc = "idle" /\ runs = 0 /\ button = FALSE
  /\ jd_text_input = NoText /\ fetched_jd = None /\ final_jd = None
  /\ uploaded_file = NoFile /\ original_text = NoText /\ original_analysis = Null
  /\ resume_json = Null /\ docx_data = NoDoc /\ new_analysis = Null
  /\ session_state = [analysis |-> Null, optimized_html |-> None, cover_letter |-> None]
  /\ stored_in = [analysis |-> 0, optimized_html |-> 0, cover_letter |-> 0]
  /\ app_mode = "resume"
  /\ calls = <<>> /\ stages = <<>> /\ shown = {} /\ error = ""

CanRerun == pc = "idle" /\ runs < MaxRuns
PisaOutcomes == {"ok", "err", "raise"}

\* Any interaction reruns the script from the top with the widgets' values of the
\* moment.
RerunApp ==
  /\ CanRerun /\ variant = "app"
  /\ \E b \in BOOLEAN, jd \in {NoText} \cup JobTexts, file \in Uploads, pisa \in PisaOutcomes :
       Becomes(AppScript(Cur, b, jd, file, pisa))

RerunUpdated ==
  /\ CanRerun /\ variant = "updated_app"
  /\ \E b \in BOOLEAN, jd \in {NoText} \cup JobTexts, link \in Links, file \in Uploads :
       Becomes(UpdatedScript(Cur, b, jd, link, file))

RerunSuper ==
  /\ CanRerun /\ variant = "super_app"
  /\ \E mode \in {"resume", "churn"}, file \in Uploads, b \in BOOLEAN :
       Becomes(SuperScript(Cur, mode, file, b))

\* The oracle answers the call the script waits in with any of the contents: nothing
\* makes it answer the same request the same way twice.
Waiting(at) == pc = at
Answer(contents, After(_, _)) == \E reply \in contents : Becomes(After(Cur, reply))
InCall == pc \in {"analyze_fit", "rewrite_resume_to_json", "rescore", "analyze_gap",
                  "generate_optimized_content", "generate_cover_letter",
                  "analyze_candidate"}

\* The call fails (the network, the service): the exception leaves the script.
OracleRaises == InCall /\ Becomes(Abort(Cur, "APIError"))

AnalyzeReturns ==
  /\ Waiting("analyze_fit")
  /\ Answer({JsonContent(r) : r \in FitReports} \cup {InvalidContent}, AfterAnalyze)
RewriteReturns ==
  /\ Waiting("rewrite_resume_to_json")
  /\ Answer({JsonContent(d) : d \in RewriteDocs} \cup {InvalidContent}, AfterRewrite)
RescoreReturns ==
  /\ Waiting("rescore")
  /\ Answer({JsonContent(r) : r \in FitReports} \cup {InvalidContent}, AfterRescore)
GapReturns ==
  /\ Waiting("analyze_gap")
  /\ Answer({JsonContent(r) : r \in GapReports} \cup {InvalidContent}, AfterGap)
ContentReturns ==
  /\ Waiting("generate_optimized_content")
  /\ Answer({TextContent(RawHtml)}, AfterContent)
LetterReturns ==
  /\ Waiting("generate_cover_letter")
  /\ \E pisa \in PisaOutcomes :
       Answer({TextContent(Letter)}, LAMBDA S, reply : AfterLetter(S, reply, pisa))
CandidateReturns ==
  /\ Waiting("analyze_candidate")
  /\ Answer({JsonContent(r) : r \in CandidateReports} \cup {InvalidContent}, AfterCandidate)

Next ==
  \/ RerunApp \/ RerunUpdated \/ RerunSuper \/ OracleRaises
  \/ AnalyzeReturns \/ RewriteReturns \/ RescoreReturns
  \/ GapReturns \/ ContentReturns \/ LetterReturns \/ CandidateReturns

Spec == Init /\ [][Next]_vars

\* ------------------------------------- the renderer applied to any input
\* create_docx on every JSON object of Docs, outside any request.
InitRender ==
  /\ variant = "updated_app" /\ secretKey = "" /\ envKey = ""
  /\ client = "" /\ pc = "render" /\ runs = 0 /\ button = FALSE
  /\ jd_text_input = NoText /\ fetched_jd = None /\ final_jd = None
  /\ uploaded_file = NoFile /\ original_text = NoText /\ original_analysis = Null
  /\ resume_json \in Docs /\ docx_data = NoDoc /\ new_analysis = Null
  /\ session_state = [analysis |-> Null, optimized_html |-> None, cover_letter |-> None]
  /\ stored_in = [analysis |-> 0, optimized_html |-> 0, cover_letter |-> 0]
  /\ app_mode = "resume"
  /\ calls = <<>> /\ stages = <<>> /\ shown = {} /\ error = ""

RenderDoc ==
  /\ pc = "render"
  /\ Becomes([Cur EXCEPT !.docx_data = create_docx(resume_json), !.pc = "rendered"])

SpecRender == InitRender /\ [][RenderDoc]_vars

\* ------------------------------------------------ reading a document back
IsHeading(p) == p.style = "Heading 1"
\* The texts of the headings of a document, in document order.
HeadingTexts(ps) ==
  LET hs == SelectSeq(ps, IsHeading) IN [i \in 1..Len(hs) |-> hs[i].runs[1].text]
HasHeading(ps, h) == \E i \in 1..Len(ps) : IsHeading(ps[i]) /\ ps[i].runs[1].text = h
\* The paragraphs between the heading h and the next heading (or the end).
Block(ps, h) ==
  IF ~HasHeading(ps, h) THEN <<>>
  ELSE LET i == CHOOSE j \in 1..Len(ps) : IsHeading(ps[j]) /\ ps[j].runs[1].text = h
           later == {j \in (i + 1)..Len(ps) : IsHeading(ps[j])}
           stop == IF later = {} THEN Len(ps) + 1
                   ELSE CHOOSE j \in later : \A m \in later : j <= m
       IN  SubSeq(ps, i + 1, stop - 1)

\* The four optional sections, in the order of the document.
SectionOrder ==
  <<[key |-> "summary", heading |-> "PROFESSIONAL SUMMARY"],
    [key |-> "skills", heading |-> "TECHNICAL SKILLS"],
    [key |-> "experience", heading |-> "PROFESSIONAL EXPERIENCE"],
    [key |-> "education", heading |-> "EDUCATION"]>>

\* A ResumeDocument as the data model has it: every field optional, and of its shape
\* when there.
IsStr(v) == v.t = "str"
AllStr(d, keys) == \A k \in keys : HasKey(d, k) => IsStr(PyGet(d, k, Null))
IsStrList(v) == v.t = "list" /\ \A i \in 1..Len(v.l) : IsStr(v.l[i])
IsJob(j) ==
  /\ j.t = "dict"
  /\ AllStr(j, {"role", "company", "dates"})
  /\ HasKey(j, "bullets") => IsStrList(PyGet(j, "bullets", Null))
IsEdu(e) == e.t = "dict" /\ AllStr(e, {"degree", "school"})
WellShaped(d) ==
  /\ AllStr(d, {"name", "contact_info", "summary"})
  /\ HasKey(d, "skills") =>
       LET k == PyGet(d, "skills", Null)
       IN  IsStr(k) \/ (k.t = "dict" /\ \A i \in 1..Len(k.l) : IsStr(k.l[i].l[1]))
  /\ HasKey(d, "experience") =>
       LET e == PyGet(d, "experience", Null)
       IN  e.t = "list" /\ \A i \in 1..Len(e.l) : IsJob(e.l[i])
  /\ HasKey(d, "education") =>
       LET e == PyGet(d, "education", Null)
       IN  e.t = "list" /\ \A i \in 1..Len(e.l) : IsEdu(e.l[i])

\* The headings of the sections that satisfy Emitted, in the fixed order.
ExpectedHeadings(Emitted(_)) ==
  LET Keep(sec) == Emitted(sec.key)
      kept == SelectSeq(SectionOrder, Keep)
  IN  [i \in 1..Len(kept) |-> kept[i].heading]

RECURSIVE SumOver(_, _)
SumOver(F(_), items) ==
  IF items = <<>> THEN 0 ELSE F(Head(items)) + SumOver(F, Tail(items))
JobSize(j) == 1 + Len(PyGet(j, "bullets", List(<<>>)).l)
\* The number of body paragraphs of a section of a well-shaped document.
BodySize(d, k) ==
  LET v == PyGet(d, k, Null)
  IN  CASE k = "summary" -> 1
        [] k = "skills" -> IF v.t = "dict" THEN Len(v.l) ELSE 1
        [] k = "experience" -> SumOver(JobSize, v.l)
        [] k = "education" -> Len(v.l)

Rendered == pc = "rendered"
Given(k) == HasKey(resume_json, k)
NonEmpty(k) == Truthy(PyGet(resume_json, k, Null))

\* C1 (as amended): for every well-shaped ResumeDocument create_docx returns a document
\* whose headings are exactly the fixed order PROFESSIONAL SUMMARY, TECHNICAL SKILLS,
\* PROFESSIONAL EXPERIENCE, EDUCATION restricted to the sections whose field is present
\* and non-empty; the document holds the two header lines and, for each such section,
\* its heading and its body, and nothing for an absent or empty field. Whenever a
\* document is returned at all, its headings are that restriction.
C1_SectionsInOrder ==
  Rendered =>
    /\ WellShaped(resume_json) =>
         /\ ~docx_data.raised
         /\ Len(docx_data.paras) =
              2 + SumOver(LAMBDA sec : IF NonEmpty(sec.key)
                                         THEN 1 + BodySize(resume_json, sec.key) ELSE 0,
                          SectionOrder)
         /\ \A i \in 1..Len(SectionOrder) :
              Len(Block(docx_data.paras, SectionOrder[i].heading)) =
                IF NonEmpty(SectionOrder[i].key)
                  THEN BodySize(resume_json, SectionOrder[i].key) ELSE 0
    /\ ~docx_data.raised => HeadingTexts(docx_data.paras) = ExpectedHeadings(NonEmpty)

\* C1 witness: a well-shaped document without education and with the other three
\* sections has been rendered with exactly their three headings.
C1_Witness ==
  /\ Rendered /\ WellShaped(resume_json) /\ ~Given("education")
  /\ HeadingTexts(docx_data.paras) =
       <<"PROFESSIONAL SUMMARY", "TECHNICAL SKILLS", "PROFESSIONAL EXPERIENCE">>

\* C1 (as stated): the headings are the fixed order restricted to the sections whose
\* field is present in the input.
C1_PresentFieldsHaveHeadings ==
  (Rendered /\ WellShaped(resume_json)) =>
    HeadingTexts(docx_data.paras) = ExpectedHeadings(Given)

\* The lines a skills mapping with text items is to give, one per entry, in order.
ExpectedSkillLines(skills) ==
  [i \in 1..Len(skills.l) |->
     Para("Normal", <<Run(skills.l[i].s \o ": ", TRUE, FALSE),
                      Run(skills.l[i].l[1].s, FALSE, FALSE)>>)]
IsTextMapping(v) == v.t = "dict" /\ \A i \in 1..Len(v.l) : IsStr(v.l[i].l[1])
SkillsValue == PyGet(resume_json, "skills", Null)
SkillsBlock == Block(docx_data.paras, "TECHNICAL SKILLS")

\* C2 (as amended): whenever create_docx returns a document, a non-empty skills mapping
\* (category to text) has given one "Category: items" line per entry, in insertion
\* order, none skipped or duplicated; a non-empty skills value that is not a mapping
\* has given exactly one paragraph holding str(value); an empty skills value (None, "",
\* 0, [], {}) has given no heading and no paragraph.
C2_SkillsLines ==
  (Rendered /\ ~docx_data.raised) =>
    /\ IsTextMapping(SkillsValue) => SkillsBlock = ExpectedSkillLines(SkillsValue)
    /\ (SkillsValue.t # "dict" /\ Truthy(SkillsValue)) =>
         SkillsBlock = <<Para("Normal", <<Run(PyStr(SkillsValue), FALSE, FALSE)>>)>>
    /\ HasHeading(docx_data.paras, "TECHNICAL SKILLS") <=> Truthy(SkillsValue)

\* C2 witness: a mapping of two categories, inserted in the opposite order of their
\* names, has been rendered as two lines.
C2_Witness ==
  /\ Rendered /\ ~docx_data.raised
  /\ SkillsValue = SkillsMapReversed(2)
  /\ Len(SkillsBlock) = 2
  /\ SkillsBlock[1].runs[1].text = "Category2: "

\* C2 (as stated): any mapping gives one line per entry, and any skills value that is
\* not a mapping gives exactly one paragraph holding it.
C2_AnyNonMappingOneParagraph ==
  (Rendered /\ WellShaped(resume_json) /\ Given("skills")) =>
    IF SkillsValue.t = "dict"
      THEN SkillsBlock = ExpectedSkillLines(SkillsValue)
      ELSE SkillsBlock = <<Para("Normal", <<Run(PyStr(SkillsValue), FALSE, FALSE)>>)>>

\* C3: create_docx on a ResumeDocument without the experience key does not raise, and
\* the document starts with the name line holding the input's name and holds the summary
\* heading followed by the input's summary.
C3_NoExperienceKey ==
  (Rendered /\ WellShaped(resume_json) /\ ~Given("experience")) =>
    /\ ~docx_data.raised
    /\ ~HasHeading(docx_data.paras, "PROFESSIONAL EXPERIENCE")
    /\ Given("name") =>
         docx_data.paras[1] =
           Para("Normal", <<Run(PyGet(resume_json, "name", Null).s, TRUE, FALSE)>>)
    /\ NonEmpty("summary") =>
         Block(docx_data.paras, "PROFESSIONAL SUMMARY") =
           <<Para("Normal", <<Run(PyGet(resume_json, "summary", Null).s, FALSE, FALSE)>>)>>

\* C3 witness: a document with a name, a summary and an education list, and no
\* experience key, has been rendered.
C3_Witness ==
  /\ Rendered /\ WellShaped(resume_json) /\ ~Given("experience")
  /\ Given("name") /\ NonEmpty("summary") /\ NonEmpty("education")
  /\ ~docx_data.raised
  /\ HeadingTexts(docx_data.paras)[1] = "PROFESSIONAL SUMMARY"

\* ------------------------------------------------------ the requests' claims
Updated == variant = "updated_app"

\* C4: whatever JSON object rewrite_resume_to_json returns, create_docx returns an
\* artifact and does not raise, so that the request goes on to the rescoring and the
\* results display.
C4_RendererAbsorbs ==
  (Updated /\ resume_json # Null) =>
    /\ ~create_docx(resume_json).raised
    /\ error \notin {"AttributeError", "TypeError"}
    /\ Start("Rescore") \in {stages[i] : i \in 1..Len(stages)}

\* p is text[:k] for some k.
IsPrefix(p, text) ==
  /\ Len(p) <= Len(text)
  /\ \A i \in 1..Len(p) :
       /\ p[i].w = text[i].w /\ p[i].of = text[i].of
       /\ IF i < Len(p) THEN p[i].n = text[i].n ELSE p[i].n <= text[i].n

\* The prefix bounds of each call, for the resume text and for the job text. The
\* 'Analyze Candidate' call is held to the largest bound configured anywhere.
ResumeBound(at) ==
  CASE at \in {"analyze_fit", "rewrite_resume_to_json", "rescore"} -> FitLimit
    [] at \in {"analyze_gap", "generate_optimized_content"} -> GapLimit
    [] at = "generate_cover_letter" -> LetterLimit
    [] at = "analyze_candidate" -> FitLimit
JobBound(at) ==
  CASE at \in {"analyze_fit", "rewrite_resume_to_json", "rescore"} -> FitLimit
    [] at = "analyze_gap" -> GapLimit
    [] at = "generate_optimized_content" -> ContextLimit
    [] at = "generate_cover_letter" -> LetterLimit
    [] at = "analyze_candidate" -> FitLimit

\* C5: in every oracle call of every variant, the resume text and the job text in the
\* prompt are prefixes of the texts given, each no longer than the call's bound.
C5_PromptsWithinBounds ==
  \A i \in 1..Len(calls) :
    /\ IsPrefix(calls[i].req.resume, calls[i].resume_text)
    /\ IsPrefix(calls[i].req.jd, calls[i].jd_text)
    /\ TextLen(calls[i].req.resume) <= ResumeBound(calls[i].at)
    /\ TextLen(calls[i].req.jd) <= JobBound(calls[i].at)

\* C6: in a request of updated_app that has come to its rescoring, the first and the
\* third call are both analyze_fit requests (same template, model, temperature 0.0,
\* seed 42, response format and job text) that differ in the resume text alone, and
\* the third one's resume text is the first 4000 characters of json.dumps of the
\* rewrite this request got; so equal texts would make equal requests, which a
\* deterministic oracle answers with the same match_percentage.
C6_RescoreSameFunction ==
  (Updated /\ Len(calls) >= 3) =>
    /\ calls[1].at = "analyze_fit" /\ calls[3].at = "rescore"
    /\ calls[1].req = analyze_fit(original_text, final_jd.text)
    /\ [calls[3].req EXCEPT !.resume = calls[1].req.resume] = calls[1].req
    /\ calls[1].req.temperature = "0.0" /\ calls[1].req.seed = "42"
    /\ calls[3].jd_text = calls[1].jd_text
    /\ calls[3].resume_text = Dumps(resume_json)
    /\ calls[3].req.resume = Take(Dumps(resume_json), FitLimit)
    /\ resume_json \in RewriteDocs

\* C6 witness: a request has shown both scores, 40 before and 70 after.
C6_Witness ==
  /\ Updated /\ Len(calls) = 3 /\ "metric: Improvement" \in shown
  /\ PyGet(original_analysis, "match_percentage", Null) = Num(40)
  /\ PyGet(new_analysis, "match_percentage", Null) = Num(70)

IsPrefixSeq(p, q) == Len(p) <= Len(q) /\ \A i \in 1..Len(p) : p[i] = q[i]
RECURSIVE Flatten(_)
Flatten(stageNames) ==
  IF stageNames = <<>> THEN <<>> ELSE Did(Head(stageNames)) \o Flatten(Tail(stageNames))

\* The order of the stages as the code has it.
UpdatedOrder == Flatten(<<"Extract", "Analyze", "Rewrite", "Render", "Rescore", "Present">>)
AppOrder ==
  Flatten(<<"Extract", "Analyze", "Rewrite", "CoverLetter">>)
    \o <<Start("Present")>> \o Did("Render") \o <<End("Present")>>
AppDisplayOrder == <<Start("Present")>> \o Did("Render") \o <<End("Present")>>
SuperOrder == Flatten(<<"Extract", "Analyze", "Present">>)

\* C7 (as amended): the stages of a run are strictly linear, none starting before the
\* one before it has ended, in the order Extract, Analyze, Rewrite, Render, Rescore,
\* Present in updated_app (the document is rendered after the rewrite and before the
\* rescoring starts); in app the order is Extract, Analyze, Rewrite, cover letter,
\* Present, the PDF being rendered within the presentation; Analyze always precedes
\* Rewrite and Rescore always follows Rewrite.
C7_StagesInCodeOrder ==
  CASE variant = "updated_app" -> IsPrefixSeq(stages, UpdatedOrder)
    [] variant = "app" -> IsPrefixSeq(stages, AppOrder) \/ IsPrefixSeq(stages, AppDisplayOrder)
    [] variant = "super_app" -> IsPrefixSeq(stages, SuperOrder)

\* C7 witness: a request of updated_app has gone through all six stages.
C7_Witness == Updated /\ stages = UpdatedOrder /\ "download: .docx" \in shown

\* C7 (as stated): the document is rendered only after the rescoring has ended.
C7_RenderAfterRescore ==
  Updated =>
    \A i \in 1..Len(stages) :
      stages[i] = Start("Render") => \E j \in 1..(i - 1) : stages[j] = End("Rescore")

\* C8: a run of app or updated_app in which the button is pressed and the job text
\* (pasted or, in updated_app, fetched: a failed fetch gives None) or the file is
\* missing shows the warning, calls no oracle, extracts no PDF text and leaves the
\* stored results as they were.
C8_MissingInputWarns ==
  [][(/\ runs' = runs + 1 /\ variant \in {"app", "updated_app"} /\ client' # "" /\ button'
      /\ \/ ~uploaded_file'.present
         \/ /\ jd_text_input' = NoText
            /\ ~(Updated /\ fetched_jd'.some /\ fetched_jd'.text # NoText))
     => (/\ "warning" \in shown' /\ calls' = <<>> /\ original_text' = NoText
         /\ \A i \in 1..Len(stages') : stages'[i].stage # "Extract"
         /\ pc' = "idle"
         /\ session_state' = session_state)]_vars

\* C8 witness: app holds the results of an earlier request, and the button has been
\* pressed with no job text: the warning is shown.
C8_Witness ==
  /\ variant = "app" /\ runs = 2 /\ button /\ jd_text_input = NoText
  /\ uploaded_file.present /\ "warning" \in shown
  /\ session_state.cover_letter.some

StageOf(at) ==
  CASE at \in {"analyze_fit", "analyze_gap", "analyze_candidate"} -> "Analyze"
    [] at \in {"rewrite_resume_to_json", "generate_optimized_content"} -> "Rewrite"
    [] at = "rescore" -> "Rescore"
    [] at = "generate_cover_letter" -> "CoverLetter"
Succeeded ==
  /\ pc = "idle"
  /\ CASE variant = "updated_app" -> "download: .docx" \in shown
       [] variant = "app" -> "success: Processing Complete" \in shown
       [] variant = "super_app" -> "Verdict" \in shown

\* C9: an oracle call that raises, or whose answer does not parse where it is parsed,
\* ends the run there: the failed call is the last one made, its stage is the last
\* one started and never ends, no call site is called twice in a request, and a
\* request that succeeds has made exactly three calls (one in super_app).
C9_FailureAborts ==
  /\ error \in {"APIError", "JSONDecodeError"} =>
       /\ pc = "idle" /\ calls # <<>>
       /\ stages[Len(stages)] = Start(StageOf(calls[Len(calls)].at))
       /\ "download: .docx" \notin shown /\ "success: Processing Complete" \notin shown
       /\ "Verdict" \notin shown /\ "tabs" \notin shown
  /\ \A i, j \in 1..Len(calls) : calls[i].at = calls[j].at => i = j
  /\ Succeeded => Len(calls) = IF variant = "super_app" THEN 1 ELSE 3

\* C9 witness: the rewrite's answer did not parse; two calls were made, no document
\* was generated and no rescoring was started.
C9_Witness ==
  /\ Updated /\ error = "JSONDecodeError" /\ Len(calls) = 2
  /\ stages = Flatten(<<"Extract", "Analyze">>) \o <<Start("Rewrite")>>
  /\ docx_data = NoDoc

NoCredential ==
  CASE variant = "app" -> secretKey = ""
    [] variant = "updated_app" -> secretKey = "" /\ envKey = ""
    [] variant = "super_app" -> envKey = ""
RequestWidgets == {"text_area", "text_input", "file_uploader", "button"}

\* C10 (as amended): without a credential app and updated_app halt before any input
\* widget is offered, and super_app's Resume Architect module halts before its file
\* uploader and button are offered, though after the sidebar's module selector (the
\* churn module runs without a credential); and no oracle call is ever made, and no
\* client constructed, without a credential.
C10_NoCallWithoutCredential ==
  /\ (NoCredential /\ ~(variant = "super_app" /\ app_mode = "churn")) =>
       /\ shown \cap RequestWidgets = {}
       /\ runs > 0 => shown \ {"sidebar radio"} = {"error: API Key Missing"}
       /\ calls = <<>> /\ client = "" /\ pc = "idle"
  /\ (NoCredential /\ variant # "super_app") => "sidebar radio" \notin shown
  /\ \A i \in 1..Len(calls) : calls[i].api_key # ""
  /\ pc # "idle" => client # ""

\* C10 witness: updated_app was run with neither the secret nor the environment
\* variable and has halted on the error.
C10_Witness ==
  /\ Updated /\ secretKey = "" /\ envKey = "" /\ runs > 0
  /\ shown = {"error: API Key Missing"}

\* C10 (as stated): without a credential no input widget at all is offered.
C10_NoWidgetWithoutCredential ==
  (NoCredential /\ ~(variant = "super_app" /\ app_mode = "churn")) =>
    shown \cap (RequestWidgets \cup {"sidebar radio"}) = {}

\* ------------------------------------------------- the results display's claims
App == variant = "app"
Events == {stages[i] : i \in 1..Len(stages)}
\* The results display of this run has come to the conversion of the stored page, and
\* no PDF has come of it.
ConversionFailed == Start("Render") \in Events /\ "download: PDF" \notin shown

\* C11: in app, whenever the results are displayed and the conversion of the stored
\* HTML fails, the run does not end in an exception: the page shows the error message
\* in place of the PDF download, and the HTML preview and the cover letter tab (its
\* text area and its download) are rendered.
C11_ConversionFailureTolerated ==
  (App /\ pc = "idle" /\ ConversionFailed) =>
    /\ error = ""
    /\ "error: Error generating PDF." \in shown
    /\ {"html preview", "text_area: cover letter", "download: Cover Letter"} \subseteq shown

\* ------------------------------------- updated_app against a stubbed oracle
\* The hard skills a job text can ask for. A keyword stands in a text as a chunk of
\* its own, bare in an extracted text and between quotes in a serialized one.
Keywords == {"APEX", "LWC", "SQL"}
Word(k) == <<Chunk(k, Len(k))>>

\* k in text: the keyword's chunk is there with all of the keyword's characters, the
\* cut of a prefix not having gone through it (a cut that only takes the closing quote
\* of a serialized string leaves the keyword whole).
Contains(text, k) ==
  \E i \in 1..Len(text) :
    /\ text[i].w = k
    /\ IF text[i].of = Len(k) + 2 THEN text[i].n >= Len(k) + 1 ELSE text[i].n = text[i].of

\* The keywords of a job text, in the order they stand in it.
JobKeywords(jd) ==
  LET ks == SelectSeq(jd, LAMBDA c : c.w \in Keywords /\ Contains(<<c>>, c.w))
  IN  [i \in 1..Len(ks) |-> ks[i].w]

\* The stub analyzer: the share of the job's keywords the resume text of the request
\* contains, and the ones it does not.
StubMissing(resume, jd) == SelectSeq(JobKeywords(jd), LAMBDA k : ~Contains(resume, k))
StubScore(resume, jd) ==
  IF JobKeywords(jd) = <<>> THEN 100
  ELSE (100 * (Len(JobKeywords(jd)) - Len(StubMissing(resume, jd)))) \div Len(JobKeywords(jd))
StubAnalyzer(req) ==
  Report(StubScore(req.resume, req.jd), StubMissing(req.resume, req.jd))

\* A text of 2^k characters.
LongDoublings == 12
RECURSIVE Pad(_)
Pad(k) == IF k = 0 THEN "x" ELSE Pad(k - 1) \o Pad(k - 1)

\* The inputs of the stubbed runs: job texts, one of them longer than the bound;
\* resumes without keywords, with some, and with one across the bound.
StubJobs ==
  {Word("APEX") \o Word("LWC"),
   Word("APEX") \o Word("SQL") \o Word("LWC"),
   Word("SQL") \o <<Chunk("jd", FitLimit + MaxExtra)>> \o Word("LWC")}
StubUploads ==
  {Pdf(<<<<Chunk("Managed a team of 5 support staff", 33)>>>>),
   Pdf(<<<<Chunk("cv-short", ShortLen)>> \o Word("SQL") \o Word("LWC")>>),
   Pdf(<<<<Chunk("cv", FitLimit - 2)>> \o Word("APEX") \o Word("SQL")>>)}

\* The rewrites of the stub rewriter: the keywords are the bullets of the one job.
Bullets(ks) == List(<<JobWith(List([i \in 1..Len(ks) |-> Str(ks[i])]))>>)
StubDocs ==
  {Dict(<<KV("name", Str("Ann Lee")), KV("experience", Bullets(ks))>>) :
     ks \in {<<"APEX">>, <<"APEX", "LWC">>, <<"APEX", "LWC", "SQL">>}}
  \cup {Dict(<<KV("summary", Str(Pad(LongDoublings))),
               KV("experience", Bullets(<<"APEX", "LWC", "SQL">>))>>),
        Dict(<<KV("experience", Bullets(<<"APEX", "LWC", "SQL">>)),
               KV("summary", Str(Pad(LongDoublings)))>>)}

\* The rewriter's output contains every keyword of the gap report it was given.
Integrates(d, gap) == \A i \in 1..Len(gap.l) : Contains(Dumps(d), gap.l[i].s)

LastCall == calls[Len(calls)]

InitStub ==
  /\ variant = "updated_app" /\ secretKey = "sk-secret" /\ envKey = ""
  /\ client = "" /\ pc = "idle" /\ runs = 0 /\ button = FALSE
  /\ jd_text_input = NoText /\ fetched_jd = None /\ final_jd = None
  /\ uploaded_file = NoFile /\ original_text = NoText /\ original_analysis = Null
  /\ resume_json = Null /\ docx_data = NoDoc /\ new_analysis = Null
  /\ session_state = [analysis |-> Null, optimized_html |-> None, cover_letter |-> None]
  /\ stored_in = [analysis |-> 0, optimized_html |-> 0, cover_letter |-> 0]
  /\ app_mode = "resume"
  /\ calls = <<>> /\ stages = <<>> /\ shown = {} /\ error = ""

\* 'Analyze & Rewrite' pressed with a job text and a resume.
StubRequest ==
  /\ CanRerun
  /\ \E jd \in StubJobs, file \in StubUploads :
       Becomes(UpdatedScript(Cur, TRUE, jd, [url |-> FALSE, raised |-> FALSE, text |-> NoText],
                             file))
StubAnalyzes ==
  /\ Waiting("analyze_fit")
  /\ Becomes(AfterAnalyze(Cur, JsonContent(StubAnalyzer(LastCall.req))))
StubRewriter ==
  /\ Waiting("rewrite_resume_to_json")
  /\ \E d \in StubDocs :
       /\ Integrates(d, LastCall.req.gap)
       /\ Becomes(AfterRewrite(Cur, JsonContent(d)))
StubRescores ==
  /\ Waiting("rescore")
  /\ Becomes(AfterRescore(Cur, JsonContent(StubAnalyzer(LastCall.req))))

NextStub == StubRequest \/ StubAnalyzes \/ StubRewriter \/ StubRescores

SpecStub == InitStub /\ [][NextStub]_vars

\* What the report of a finished request shows, and what went into the two scorings.
Presented == End("Present") \in Events
OriginalScore == PyGet(original_analysis, "match_percentage", Null).n
OptimizedScore == PyGet(new_analysis, "match_percentage", Null).n
SentJob == Take(final_jd.text, FitLimit)
SentOriginal == Take(original_text, FitLimit)
SentRewrite == Take(Dumps(resume_json), FitLimit)

\* C12 (as amended): with the stub analyzer and a rewriter whose output contains every
\* missing keyword, the two scores reported are the stub's scores of the first 4000
\* characters of the resume and of the first 4000 characters of the serialized rewrite,
\* against the first 4000 characters of the job text; and the optimized score is at
\* least the original score whenever those first 4000 characters of the serialized
\* rewrite contain every job keyword that the first 4000 characters of the resume
\* contained.
C12_ImprovementWithinBound ==
  Presented =>
    /\ OriginalScore = StubScore(SentOriginal, SentJob)
    /\ OptimizedScore = StubScore(SentRewrite, SentJob)
    /\ (\A k \in Keywords : Contains(SentOriginal, k) => Contains(SentRewrite, k))
         => OptimizedScore >= OriginalScore

\* C12 witness: a rewrite longer than the bound, with the keywords ahead of the bound,
\* has been scored higher than a resume that lacked some of them.
C12_Witness ==
  /\ Presented
  /\ TextLen(Dumps(resume_json)) > FitLimit
  /\ StubMissing(SentOriginal, SentJob) # <<>>
  /\ OptimizedScore > OriginalScore

\* C12 (as stated): whenever the rewrite contains every missing keyword, the optimized
\* score is at least the original score, whatever the resume, the job text and the
\* rewrite.
C12_AlwaysImproves ==
  (Presented /\ Integrates(resume_json, PyGet(original_analysis, "missing_keywords", Null)))
    => OptimizedScore >= OriginalScore

\* ------------------------------------------------------ the header's claim
\* The texts of the runs of a document's paragraphs.
RunTexts(ps) == {ps[i].runs[j].text : <<i, j>> \in {ij \in (1..Len(ps)) \X (1..2) : ij[2] <= Len(ps[ij[1]].runs)}}

\* C13: for a ResumeDocument without name and without contact_info create_docx gives a
\* document with no name line and no contact line: no placeholder text stands in for
\* them, and the document holds the paragraphs of its sections and no others.
C13_NoHeaderWithoutNameAndContact ==
  (Rendered /\ WellShaped(resume_json) /\ ~Given("name") /\ ~Given("contact_info")) =>
    /\ ~docx_data.raised
    /\ RunTexts(docx_data.paras)
         \cap {"Candidate Name", "Location | Email | Phone | LinkedIn"} = {}
    /\ Len(docx_data.paras) =
         SumOver(LAMBDA sec : IF NonEmpty(sec.key)
                                THEN 1 + BodySize(resume_json, sec.key) ELSE 0,
                 SectionOrder)

\* ------------------------------------------------------ the session's claim
\* The results tabs are displayed: an analysis is stored.
TabsDisplayed == App /\ Truthy(session_state.analysis)

\* C14: in app, whenever an analysis is stored, the optimized HTML and the cover letter
\* are stored too, and all three were stored by the same request; no failed request
\* leaves an analysis next to an earlier request's resume or letter, or next to none.
C14_SessionConsistent ==
  (TabsDisplayed /\ pc = "idle") =>
    /\ session_state.optimized_html.some
    /\ session_state.cover_letter.some
    /\ stored_in.optimized_html = stored_in.analysis
    /\ stored_in.cover_letter = stored_in.analysis

====
